---------------------------- MODULE Spec2Model ----------------------------
(***************************************************************************)
(* A model of backend/main.py: the conversation store                      *)
(* (ConversationMemory), the prompt builder, the visual formatter and the  *)
(* /api/chat and /api/memory handlers.                                     *)
(*                                                                         *)
(* Strings are sequences of characters.  A literal of the source that no   *)
(* character-level operation of the program can split is written as one   *)
(* element, e.g. "System instructions:".                                   *)
(*                                                                         *)
(* Python objects live in `heap`: the store and every list handed to a     *)
(* caller hold references to the message dicts, as the Python lists do.    *)
(* A reference is <<thread, number of the add_message call>>.              *)
(***************************************************************************)
EXTENDS Integers, Sequences, FiniteSets, TLC

VARIABLES
    apiKey,     \* GEMINI_API_KEY is set (read once at import)
    clock,      \* the latest datetime.now(timezone.utc) any thread has read
    heap,       \* the message dicts ever appended: reference -> dict
    store,      \* ConversationMemory._store: session id -> list of references
    req,        \* per worker thread: the locals of the chat() call it runs
    clears,     \* DELETE /api/memory requests served so far
    llmCalls,   \* model.generate_content invocations so far
    calls,      \* history: reference -> the add_message call that appended it
    held,       \* the list a direct caller of get_all / get_recent holds
    lastCall,   \* the arguments of that direct call
    text_in,    \* the argument of a build_visual_payload call
    visual      \* its result

vars == <<apiKey, clock, heap, store, req, clears, llmCalls, calls,
          held, lastCall, text_in, visual>>

-----------------------------------------------------------------------------
(* Bounds *)

MaxClock == 2
MaxClears == 1
MaxTurns == 3
MaxLen == 5

\* the worker threads that run chat() concurrently, one request each, in the
\* order the requests arrive
WorkerOrder == <<"w1", "w2">>
Workers == {WorkerOrder[i] : i \in 1..Len(WorkerOrder)}

\* request bodies
Messages == {<<" ", "b">>}
SessionIds == {<<>>, <<"s1">>}
MemorySizes == {0, 1, 2}
Systems == {<<>>, <<"c", " ">>}
\* what generate_content can return (<<>>: no text found) or raise
GeminiTexts == {<<"r">>}
GeminiErrors == {<<"e">>}

\* the arguments of direct calls of the store
ApiSessions == {<<"s1">>, <<"s2">>}
ApiRoles == {"user", "system"}
ApiTexts == {<<"a">>}
Limits == (0 - MaxTurns)..(MaxTurns + 1)
\* what a caller writes into a dict it was handed
EditedText == <<"x">>

\* the characters of the texts handed to build_visual_payload
Alphabet == {"a", " ", "\n", "\r", "<", ">", "&", "\""}

-----------------------------------------------------------------------------
(* Python string and list primitives *)

Whitespace == {" ", "\n", "\r", "\t"}

\* s[start:] of Python, for any integer start
SliceFrom(s, start) ==
    LET n == Len(s)
        lo == IF start < 0 THEN (IF n + start < 0 THEN 0 ELSE n + start)
              ELSE (IF start > n THEN n ELSE start)
    IN  SubSeq(s, lo + 1, n)

RECURSIVE LStrip(_)
LStrip(s) ==
    IF s # <<>> /\ Head(s) \in Whitespace THEN LStrip(Tail(s)) ELSE s

RECURSIVE RStrip(_)
RStrip(s) ==
    IF s # <<>> /\ s[Len(s)] \in Whitespace
    THEN RStrip(SubSeq(s, 1, Len(s) - 1)) ELSE s

\* str.strip()
Strip(s) == RStrip(LStrip(s))

\* sep.join(parts)
RECURSIVE Join(_, _)
Join(parts, sep) ==
    IF parts = <<>> THEN <<>>
    ELSE IF Len(parts) = 1 THEN parts[1]
    ELSE parts[1] \o sep \o Join(Tail(parts), sep)

\* str.capitalize() on the role names the handlers use
Capitalize(role) ==
    CASE role = "system" -> "System"
      [] role = "user" -> "User"
      [] role = "assistant" -> "Assistant"

-----------------------------------------------------------------------------
(* ConversationMemory *)

\* the message dicts a list of references points to
Turns(h, ids) == [i \in 1..Len(ids) |-> h[ids[i]]]

\* a slip: the key is assigned the new one-element list every time
StoreAppend_Overwrite(st, sid, id) ==
    [s \in DOMAIN st \cup {sid} |-> IF s = sid THEN <<id>> ELSE st[s]]

\* lines 78-80, under the lock: create the session if absent, append
StoreAppend(st, sid, id) ==
    IF sid \in DOMAIN st
    THEN [st EXCEPT ![sid] = Append(@, id)]
    ELSE [s \in DOMAIN st \cup {sid} |-> IF s = sid THEN <<id>> ELSE st[s]]

\* list(self._store.get(session_id, [])): a new list of the same references
get_all(st, sid) == IF sid \in DOMAIN st THEN st[sid] ELSE <<>>

\* a slip: items[:limit], the oldest turns
get_recent_Oldest(st, sid, limit) ==
    LET items == get_all(st, sid)
    IN  IF limit # 0 /\ Len(items) > limit
        THEN SubSeq(items, 1, limit) ELSE items

\* items[-limit:] if limit and len(items) > limit else items
get_recent(st, sid, limit) ==
    LET items == get_all(st, sid)
    IN  IF limit # 0 /\ Len(items) > limit
        THEN SliceFrom(items, -limit) ELSE items

\* a slip: self._store.clear()
clear_All(st, sid) == [s \in {} |-> <<>>]

\* self._store.pop(session_id, None)
clear(st, sid) == [s \in DOMAIN st \ {sid} |-> st[s]]

\* list(self._store.keys()); the order of the keys is not modelled
sessions(st) == DOMAIN st

-----------------------------------------------------------------------------
(* build_visual_payload *)

\* text.replace("\r\n", "\n").replace("\r", "\n")
RECURSIVE NormalizeNewlines(_)
NormalizeNewlines(s) ==
    IF s = <<>> THEN <<>>
    ELSE IF Head(s) = "\r" /\ Len(s) > 1 /\ s[2] = "\n"
         THEN <<"\n">> \o NormalizeNewlines(SubSeq(s, 3, Len(s)))
    ELSE IF Head(s) = "\r" THEN <<"\n">> \o NormalizeNewlines(Tail(s))
    ELSE <<Head(s)>> \o NormalizeNewlines(Tail(s))

\* sep is a prefix of s
StartsWith(s, sep) == Len(s) >= Len(sep) /\ SubSeq(s, 1, Len(sep)) = sep

\* sep in s
RECURSIVE Contains(_, _)
Contains(s, sep) ==
    IF Len(s) < Len(sep) THEN FALSE
    ELSE StartsWith(s, sep) \/ Contains(Tail(s), sep)

\* s.split(sep): cut at each occurrence of sep, scanning from the left;
\* cur is the piece being collected
RECURSIVE SplitFrom(_, _, _)
SplitFrom(s, sep, cur) ==
    IF s = <<>> THEN <<cur>>
    ELSE IF StartsWith(s, sep)
         THEN <<cur>> \o SplitFrom(SubSeq(s, Len(sep) + 1, Len(s)), sep, <<>>)
    ELSE SplitFrom(Tail(s), sep, Append(cur, Head(s)))

Split(s, sep) == SplitFrom(s, sep, <<>>)

\* [p.strip() for p in pieces if p.strip()]
RECURSIVE StripNonEmpty(_)
StripNonEmpty(pieces) ==
    IF pieces = <<>> THEN <<>>
    ELSE IF Strip(Head(pieces)) # <<>>
         THEN <<Strip(Head(pieces))>> \o StripNonEmpty(Tail(pieces))
    ELSE StripNonEmpty(Tail(pieces))

\* html.escape(c) for one character (quote=True)
EscapeChar(c) ==
    CASE c = "&" -> <<"&", "a", "m", "p", ";">>
      [] c = "<" -> <<"&", "l", "t", ";">>
      [] c = ">" -> <<"&", "g", "t", ";">>
      [] c = "\"" -> <<"&", "q", "u", "o", "t", ";">>
      [] c = "'" -> <<"&", "#", "x", "2", "7", ";">>
      [] OTHER -> <<c>>

\* html.escape(s)
RECURSIVE Escape(_)
Escape(s) == IF s = <<>> THEN <<>> ELSE EscapeChar(Head(s)) \o Escape(Tail(s))

BrTag == <<"<", "b", "r", ">">>
POpen == <<"<", "p", ">">>
PClose == <<"<", "/", "p", ">">>

\* safe.replace("\n", "<br>")
RECURSIVE NewlinesToBr(_)
NewlinesToBr(s) ==
    IF s = <<>> THEN <<>>
    ELSE (IF Head(s) = "\n" THEN BrTag ELSE <<Head(s)>>) \o NewlinesToBr(Tail(s))

\* a slip: the <br> substitution before the escaping
HtmlPart_BrFirst(p) == POpen \o Escape(NewlinesToBr(p)) \o PClose

\* lines 277-279: one paragraph's fragment
HtmlPart(p) == POpen \o NewlinesToBr(Escape(p)) \o PClose

\* lines 268-272
Paragraphs(text) ==
    LET t == NormalizeNewlines(text)
    IN  IF Contains(t, <<"\n", "\n">>)
        THEN StripNonEmpty(Split(t, <<"\n", "\n">>))
        ELSE StripNonEmpty(Split(t, <<"\n">>))

build_visual_payload(text) ==
    LET paragraphs == Paragraphs(text)
        html_parts == [i \in 1..Len(paragraphs) |-> HtmlPart(paragraphs[i])]
    IN  [html |-> IF html_parts # <<>> THEN Join(html_parts, <<"\n">>)
                  ELSE POpen \o <<"(empty)">> \o PClose,
         markdown |-> Join(paragraphs, <<"\n", "\n">>),
         segments |-> [i \in 1..Len(paragraphs) |->
                          [type |-> "paragraph", text |-> paragraphs[i]]]]

-----------------------------------------------------------------------------
(* build_prompt_with_context *)

SystemHeader == <<"System instructions:">>
\* the arrow of the source is written ->
HistoryHeader == <<"Conversation history (oldest -> newest):">>

\* [it["text"].strip() for it in items if it["role"] == "system"]
RECURSIVE SystemLines(_)
SystemLines(items) ==
    IF items = <<>> THEN <<>>
    ELSE IF Head(items).role = "system"
         THEN <<Strip(Head(items).text)>> \o SystemLines(Tail(items))
    ELSE SystemLines(Tail(items))

\* lines 298-305: the system block, from one get_all
PromptSystemBlock(h, st, sid) ==
    IF sid # <<>>
    THEN LET system_lines == SystemLines(Turns(h, get_all(st, sid)))
         IN  IF system_lines # <<>>
             THEN <<SystemHeader>> \o system_lines \o << <<>> >>
             ELSE <<>>
    ELSE <<>>

\* f"{role}: {text}"
RoleLine(role, text) == <<Capitalize(role), ":", " ">> \o text

\* a slip: the loop without its `continue`
RECURSIVE HistoryLines_KeepSystem(_)
HistoryLines_KeepSystem(items) ==
    IF items = <<>> THEN <<>>
    ELSE <<<<Capitalize(Head(items).role), ":", " ">> \o Strip(Head(items).text)>>
             \o HistoryLines_KeepSystem(Tail(items))

\* lines 312-318: the loop over recent, skipping system entries
RECURSIVE HistoryLines(_)
HistoryLines(items) ==
    IF items = <<>> THEN <<>>
    ELSE IF Head(items).role = "system" THEN HistoryLines(Tail(items))
    ELSE <<RoleLine(Head(items).role, Strip(Head(items).text))>>
             \o HistoryLines(Tail(items))

\* lines 308-319: the history block, from one get_recent
PromptHistoryBlock(h, st, sid, memory_size) ==
    IF sid # <<>>
    THEN LET recent == Turns(h, get_recent(st, sid, memory_size))
         IN  IF recent # <<>>
             THEN <<HistoryHeader>> \o HistoryLines(recent) \o << <<>> >>
             ELSE <<>>
    ELSE <<>>

\* lines 322-323
PromptTail(user_message) ==
    << <<"User", ":", " ">> \o Strip(user_message), <<"Assistant", ":">> >>

\* line 324
JoinLines(parts) == Join(parts, <<"\n">>)

-----------------------------------------------------------------------------
(* POST /api/chat *)

DefaultMemorySize == 6

NoItem == [role |-> "", text |-> <<>>, timestamp |-> 0]
NoResponse == [response |-> <<>>, html |-> <<>>, markdown |-> <<>>,
               segments |-> <<>>, session_id |-> <<>>]

\* the locals of a chat() call; branch records which return statement ran
IdleReq == [pc |-> "idle", session_id |-> <<>>, message |-> <<>>,
            memory_size |-> 0, system |-> <<>>, item |-> NoItem,
            parts |-> <<>>, prompt |-> <<>>, text |-> <<>>,
            branch |-> "", resp |-> NoResponse]

MissingKeyText == <<"Server is missing GEMINI_API_KEY. Please set it in .env.">>

\* lines 356-365 (model, timestamp and canvas_script are not modelled)
MissingKeyResponse(sid) ==
    [response |-> MissingKeyText,
     html |-> <<"<p><strong>Server is missing GEMINI_API_KEY.</strong> Please set it in .env.</p>">>,
     markdown |-> <<"**Server is missing GEMINI_API_KEY.** Please set it in .env.">>,
     segments |-> << [type |-> "error", text |-> MissingKeyText] >>,
     session_id |-> sid]

\* lines 397-422 and 427-441
VisualResponse(text, sid) ==
    LET v == build_visual_payload(text)
    IN  [response |-> text, html |-> v.html, markdown |-> v.markdown,
         segments |-> v.segments, session_id |-> sid]

\* line 343: req.session_id or f"session-{ms}"
ResolveSession(session_id, now) ==
    IF session_id # <<>> THEN session_id ELSE <<"session-", now>>

\* line 345
ClampMemorySize(memory_size) ==
    IF memory_size # 0 /\ memory_size > 0 THEN memory_size ELSE DefaultMemorySize

\* a slip: the check is gone
KeyMissing_Never(key) == FALSE

\* line 351: if not GEMINI_API_KEY
KeyMissing(key) == ~key

\* lines 351-368: after the system instruction is handled
AfterSystem(r) ==
    IF KeyMissing(apiKey)
    THEN [r EXCEPT !.pc = "done", !.branch = "nokey",
                   !.resp = MissingKeyResponse(r.session_id)]
    ELSE [r EXCEPT !.pc = "user_ts"]

\* line 425
ErrorText(e) == <<"Error communicating with Gemini API:", " ">> \o e

\* lines 379-391, for a result that holds the text t or no text at all
ExtractText(t) == IF t = <<>> THEN <<"(empty response)">> ELSE t

\* datetime.now(): the time last read or a later one; a step that does not
\* read the clock leaves it alone
Now(reads) == IF reads THEN clock..MaxClock ELSE {clock}

\* the requests reach the worker threads in WorkerOrder
MayBegin(w) ==
    \A i \in 1..Len(WorkerOrder) :
        WorkerOrder[i] = w =>
            \A j \in 1..(i - 1) : req[WorkerOrder[j]].pc # "idle"

ChatBegin(w) ==
    /\ req[w].pc = "idle"
    /\ MayBegin(w)
    /\ \E message \in Messages, session_id \in SessionIds,
          memory_size \in MemorySizes, system \in Systems :
       \E now \in Now(session_id = <<>>) :
          LET r == [IdleReq EXCEPT !.session_id = ResolveSession(session_id, now),
                                   !.message = message,
                                   !.memory_size = ClampMemorySize(memory_size),
                                   !.system = system]
          IN  /\ clock' = now
              /\ req' = [req EXCEPT ![w] =
                            IF system # <<>> THEN [r EXCEPT !.pc = "system_ts"]
                            ELSE AfterSystem(r)]
    /\ UNCHANGED <<apiKey, heap, store, clears, llmCalls, calls,
                   held, lastCall, text_in, visual>>

StampPcs == {"system_ts", "user_ts", "assistant_ts", "error_ts"}
AppendPcs == {"system_add", "user_add", "assistant_add", "error_add"}

\* the role, text and number of the add_message call a worker is in
CallRole(r) ==
    CASE r.pc \in {"system_ts", "system_add"} -> "system"
      [] r.pc \in {"user_ts", "user_add"} -> "user"
      [] OTHER -> "assistant"

\* a slip: the except branch stores the request's message
CallText_Message(r) ==
    CASE r.pc \in {"system_ts", "system_add"} -> r.system
      [] OTHER -> r.message

CallText(r) ==
    CASE r.pc \in {"system_ts", "system_add"} -> r.system
      [] r.pc \in {"user_ts", "user_add"} -> r.message
      [] OTHER -> r.text

CallNo(r) ==
    CASE r.pc \in {"system_ts", "system_add"} -> 1
      [] r.pc \in {"user_ts", "user_add"} -> 2
      [] OTHER -> 3

AppendPc(pc) ==
    CASE pc = "system_ts" -> "system_add"
      [] pc = "user_ts" -> "user_add"
      [] pc = "assistant_ts" -> "assistant_add"
      [] pc = "error_ts" -> "error_add"

\* add_message, lines 75-76: the timestamp is taken before the lock
AddMessageStamp(w) ==
    /\ req[w].pc \in StampPcs
    /\ \E now \in Now(TRUE) :
          /\ clock' = now
          /\ req' = [req EXCEPT ![w].item = [role |-> CallRole(req[w]),
                                             text |-> CallText(req[w]),
                                             timestamp |-> now],
                                ![w].pc = AppendPc(req[w].pc)]
    /\ UNCHANGED <<apiKey, heap, store, clears, llmCalls, calls,
                   held, lastCall, text_in, visual>>

\* where chat() continues after an add_message returns
AfterAppend(r) ==
    CASE r.pc = "system_add" -> AfterSystem(r)
      [] r.pc = "user_add" -> [r EXCEPT !.pc = "get_all"]
      [] r.pc = "assistant_add" ->
             [r EXCEPT !.pc = "done", !.branch = "ok",
                       !.resp = VisualResponse(r.text, r.session_id)]
      [] r.pc = "error_add" ->
             [r EXCEPT !.pc = "done", !.branch = "except",
                       !.resp = VisualResponse(r.text, r.session_id)]

\* a new dict on the heap
Alloc(h, id, item) ==
    [x \in DOMAIN h \cup {id} |-> IF x = id THEN item ELSE h[x]]

\* add_message, lines 77-80: the append under the lock
AddMessageAppend(w) ==
    /\ req[w].pc \in AppendPcs
    /\ LET id == <<w, CallNo(req[w])>>
       IN  /\ heap' = Alloc(heap, id, req[w].item)
           /\ store' = StoreAppend(store, req[w].session_id, id)
           /\ calls' = Alloc(calls, id, [sid |-> req[w].session_id,
                                         role |-> CallRole(req[w]),
                                         text |-> CallText(req[w])])
    /\ req' = [req EXCEPT ![w] = AfterAppend([req[w] EXCEPT !.item = NoItem])]
    /\ UNCHANGED <<apiKey, clock, clears, llmCalls,
                   held, lastCall, text_in, visual>>

\* build_prompt_with_context, lines 295-305
BuildPromptSystem(w) ==
    /\ req[w].pc = "get_all"
    /\ req' = [req EXCEPT ![w].parts =
                              PromptSystemBlock(heap, store, req[w].session_id),
                          ![w].pc = "get_recent"]
    /\ UNCHANGED <<apiKey, clock, heap, store, clears, llmCalls, calls,
                   held, lastCall, text_in, visual>>

\* build_prompt_with_context, lines 307-324
BuildPromptHistory(w) ==
    /\ req[w].pc = "get_recent"
    /\ req' = [req EXCEPT ![w].prompt =
                              JoinLines(req[w].parts
                                  \o PromptHistoryBlock(heap, store,
                                         req[w].session_id, req[w].memory_size)
                                  \o PromptTail(req[w].message)),
                          ![w].pc = "generate"]
    /\ UNCHANGED <<apiKey, clock, heap, store, clears, llmCalls, calls,
                   held, lastCall, text_in, visual>>

\* lines 375-391: generate_content returns
GeminiReturns(w) ==
    /\ req[w].pc = "generate"
    /\ \E t \in GeminiTexts :
          req' = [req EXCEPT ![w].text = ExtractText(t),
                             ![w].pc = "assistant_ts"]
    /\ llmCalls' = llmCalls + 1
    /\ UNCHANGED <<apiKey, clock, heap, store, clears, calls,
                   held, lastCall, text_in, visual>>

\* lines 376, 424-425: generate_content raises
GeminiRaises(w) ==
    /\ req[w].pc = "generate"
    /\ \E e \in GeminiErrors :
          req' = [req EXCEPT ![w].text = ErrorText(e),
                             ![w].pc = "error_ts"]
    /\ llmCalls' = llmCalls + 1
    /\ UNCHANGED <<apiKey, clock, heap, store, clears, calls,
                   held, lastCall, text_in, visual>>

(* DELETE /api/memory/{session_id} *)

\* a session id no chat request of the model uses
UnknownSession == <<"s0">>

ClearMemory(sid) ==
    /\ clears < MaxClears
    /\ store' = clear(store, sid)
    /\ clears' = clears + 1
    /\ UNCHANGED <<apiKey, clock, heap, req, llmCalls, calls,
                   held, lastCall, text_in, visual>>

NoCall == [op |-> "", sid |-> <<>>, limit |-> 0]
NoVisual == [html |-> <<>>, markdown |-> <<>>, segments |-> <<>>]
EmptyMap == [x \in {} |-> NoItem]

\* the state after import, at time t
InitAt(t) ==
    /\ apiKey \in BOOLEAN
    /\ clock = t
    /\ heap = EmptyMap
    /\ store = EmptyMap
    /\ req = [w \in Workers |-> IdleReq]
    /\ clears = 0
    /\ llmCalls = 0
    /\ calls = EmptyMap
    /\ held = <<>>
    /\ lastCall = NoCall
    /\ visual = NoVisual

Chat ==
    \/ \E w \in Workers : ChatBegin(w)
    \/ \E w \in Workers : AddMessageStamp(w)
    \/ \E w \in Workers : AddMessageAppend(w)
    \/ \E w \in Workers : BuildPromptSystem(w)
    \/ \E w \in Workers : BuildPromptHistory(w)
    \/ \E w \in Workers : GeminiReturns(w)
    \/ \E w \in Workers : GeminiRaises(w)

(* Spec: concurrent chat and DELETE requests within one tick of the clock   *)
(* (every datetime.now() returns the same instant).                        *)
Init == InitAt(MaxClock) /\ text_in = <<>>

Next ==
    \/ Chat
    \/ \E sid \in DOMAIN store \cup {UnknownSession} : ClearMemory(sid)

Spec == Init /\ [][Next]_vars

(* SpecClock: concurrent chat requests while the clock advances.           *)
InitClock == InitAt(1) /\ text_in = <<>>

NextClock == Chat

SpecClock == InitClock /\ [][NextClock]_vars

-----------------------------------------------------------------------------
(* SpecStore: one thread calls the store directly and keeps the list a     *)
(* read returned.                                                          *)

\* add_message(sid, role, text), lines 74-80
ApiAddMessage(sid, role, text) ==
    /\ Cardinality(DOMAIN heap) < MaxTurns
    /\ LET id == <<"api", Cardinality(DOMAIN heap) + 1>>
       IN  /\ heap' = Alloc(heap, id, [role |-> role, text |-> text,
                                       timestamp |-> clock])
           /\ store' = StoreAppend(store, sid, id)
           /\ calls' = Alloc(calls, id, [sid |-> sid, role |-> role,
                                         text |-> text])
    /\ UNCHANGED <<apiKey, clock, req, clears, llmCalls,
                   held, lastCall, text_in, visual>>

\* clear(sid), lines 92-94
ApiClear(sid) ==
    /\ clears < MaxClears
    /\ store' = clear(store, sid)
    /\ clears' = clears + 1
    /\ UNCHANGED <<apiKey, clock, heap, req, llmCalls, calls,
                   held, lastCall, text_in, visual>>

\* items = get_all(sid), lines 88-90
ApiGetAll(sid) ==
    /\ held' = get_all(store, sid)
    /\ lastCall' = [op |-> "get_all", sid |-> sid, limit |-> 0]
    /\ UNCHANGED <<apiKey, clock, heap, store, req, clears, llmCalls, calls,
                   text_in, visual>>

\* items = get_recent(sid, limit), lines 82-86
ApiGetRecent(sid, limit) ==
    /\ held' = get_recent(store, sid, limit)
    /\ lastCall' = [op |-> "get_recent", sid |-> sid, limit |-> limit]
    /\ UNCHANGED <<apiKey, clock, heap, store, req, clears, llmCalls, calls,
                   text_in, visual>>

\* the caller changes the list it holds: items.pop()
CallerPops ==
    /\ held # <<>>
    /\ held' = SubSeq(held, 1, Len(held) - 1)
    /\ lastCall' = NoCall
    /\ UNCHANGED <<apiKey, clock, heap, store, req, clears, llmCalls, calls,
                   text_in, visual>>

\* the caller changes a dict of the list it holds: items[i]["text"] = ...
CallerEditsTurn(i) ==
    /\ i \in 1..Len(held)
    /\ heap[held[i]].text # EditedText
    /\ heap' = [heap EXCEPT ![held[i]].text = EditedText]
    /\ UNCHANGED <<apiKey, clock, store, req, clears, llmCalls, calls,
                   held, lastCall, text_in, visual>>

InitStore == InitAt(MaxClock) /\ apiKey /\ text_in = <<>>

NextStore ==
    \/ \E sid \in ApiSessions, role \in ApiRoles, text \in ApiTexts :
          ApiAddMessage(sid, role, text)
    \/ \E sid \in ApiSessions : ApiClear(sid)
    \/ \E sid \in ApiSessions : ApiGetAll(sid)
    \/ \E sid \in ApiSessions, limit \in Limits : ApiGetRecent(sid, limit)
    \/ CallerPops
    \/ \E i \in 1..MaxTurns : CallerEditsTurn(i)

SpecStore == InitStore /\ [][NextStore]_vars

(* SpecVisual: build_visual_payload on every text of at most MaxLen        *)
(* characters.                                                             *)

TextsUpTo(n) == UNION {[1..k -> Alphabet] : k \in 0..n}

FormatText ==
    /\ lastCall = NoCall
    /\ visual' = build_visual_payload(text_in)
    /\ lastCall' = [op |-> "build_visual_payload", sid |-> <<>>, limit |-> 0]
    /\ UNCHANGED <<apiKey, clock, heap, store, req, clears, llmCalls, calls,
                   held, text_in>>

InitVisual == InitAt(MaxClock) /\ apiKey /\ text_in \in TextsUpTo(MaxLen)

NextVisual == FormatText

SpecVisual == InitVisual /\ [][NextVisual]_vars

-----------------------------------------------------------------------------
(* What the properties below are stated in: the stored turns of a session, *)
(* and trimming, windows and line joining written without the program's    *)
(* own loops.                                                              *)

StoredIds(sid) == IF sid \in DOMAIN store THEN store[sid] ELSE <<>>
StoredTurns(sid) == [i \in 1..Len(StoredIds(sid)) |-> heap[StoredIds(sid)[i]]]
Ids(seq) == {seq[i] : i \in 1..Len(seq)}
IsPrefix(a, b) == Len(a) <= Len(b) /\ SubSeq(b, 1, Len(a)) = a
IsSuffix(a, b) == Len(a) <= Len(b) /\ SubSeq(b, Len(b) - Len(a) + 1, Len(b)) = a

\* s without its leading and trailing whitespace
Trimmed(s) ==
    CHOOSE t \in {SubSeq(s, i, j) : i \in 1..(Len(s) + 1), j \in 0..Len(s)} :
        \E i \in 1..(Len(s) + 1), j \in 0..Len(s) :
            /\ t = SubSeq(s, i, j)
            /\ \A k \in 1..(i - 1) : s[k] \in {" ", "\n", "\r", "\t"}
            /\ \A k \in (j + 1)..Len(s) : s[k] \in {" ", "\n", "\r", "\t"}
            /\ i <= j => s[i] \notin {" ", "\n", "\r", "\t"}
                         /\ s[j] \notin {" ", "\n", "\r", "\t"}
            /\ i > j => j = Len(s)

\* the characters of the lines, a newline between two lines
Flat(lines) ==
    LET n == Len(lines)
        start[i \in 1..(n + 1)] ==
            IF i = 1 THEN 0 ELSE start[i - 1] + Len(lines[i - 1]) + 1
        total == IF n = 0 THEN 0 ELSE start[n + 1] - 1
        lineAt(p) == CHOOSE i \in 1..n : start[i] < p /\ p <= start[i + 1]
    IN  [p \in 1..total |->
            LET i == lineAt(p)
            IN  IF p = start[i + 1] THEN "\n" ELSE lines[i][p - start[i]]]

\* the last min(k, len) turns
LastTurns(turns, k) ==
    LET n == Len(turns)
        m == IF k < n THEN k ELSE n
    IN  SubSeq(turns, n - m + 1, n)

IsSystem(t) == t.role = "system"
IsConversation(t) == t.role \in {"user", "assistant"}

RoleName(t) == IF t.role = "user" THEN "User" ELSE "Assistant"

-----------------------------------------------------------------------------
\* C1: add_message is atomic under concurrent calls.  Without a clear, the
\* session holds exactly the completed add_message calls made to it, each
\* once; every stored turn has the role and text of its call; the turns of
\* one caller stand in the order of that caller's calls.
C1_AddMessageAtomic ==
    \A sid \in DOMAIN store \cup {calls[id].sid : id \in DOMAIN calls} :
        LET items == get_all(store, sid)
            completed == {id \in DOMAIN calls : calls[id].sid = sid}
        IN  /\ clears = 0 => /\ Len(items) = Cardinality(completed)
                             /\ Ids(items) = completed
            /\ \A i \in 1..Len(items) :
                  /\ items[i] \in completed
                  /\ heap[items[i]].role = calls[items[i]].role
                  /\ heap[items[i]].text = calls[items[i]].text
            /\ \A i, j \in 1..Len(items) :
                  i < j => /\ items[i] # items[j]
                           /\ items[i][1] = items[j][1] => items[i][2] < items[j][2]

\* two requests have interleaved their appends to one session
C1_Witness ==
    /\ clears = 0
    /\ \E sid \in DOMAIN store :
          \E i, j, k \in 1..Len(store[sid]) :
              /\ i < j /\ j < k
              /\ store[sid][i][1] = store[sid][k][1]
              /\ store[sid][j][1] # store[sid][i][1]

\* C3: in every reachable state the turns of each session are stored in
\* non-decreasing timestamp order.
C3_TimestampsNonDecreasing ==
    \A sid \in DOMAIN store :
        \A i, j \in 1..Len(store[sid]) :
            i < j => heap[store[sid][i]].timestamp <= heap[store[sid][j]].timestamp

\* C4: a session exists from its first add_message until a clear.  A clear
\* of sid leaves get_all(sid) empty and sid out of sessions(), changes no
\* other session and no turn, and changes nothing when sid is unknown; any
\* other step keeps every session and every stored turn; a session appears
\* only by an add_message to it, and never without a turn.
C4_Step ==
    /\ \A sid \in DOMAIN store \cup {UnknownSession} :
          ClearMemory(sid) =>
              /\ get_all(store', sid) = <<>>
              /\ sid \notin sessions(store')
              /\ DOMAIN store' = DOMAIN store \ {sid}
              /\ \A o \in DOMAIN store \ {sid} : store'[o] = store[o]
              /\ sid \notin DOMAIN store => store' = store
              /\ heap' = heap
    /\ (~ \E sid \in DOMAIN store \cup {UnknownSession} : ClearMemory(sid)) =>
          \A s \in DOMAIN store :
              /\ s \in DOMAIN store'
              /\ IsPrefix(store[s], store'[s])
              /\ \A i \in 1..Len(store[s]) : heap'[store[s][i]] = heap[store[s][i]]
    /\ \A s \in DOMAIN store' \ DOMAIN store :
          \E w \in Workers : AddMessageAppend(w) /\ req[w].session_id = s
    /\ \A s \in DOMAIN store' : store'[s] # <<>>

C4_SessionLifetime == [][C4_Step]_vars

\* a clear has removed a session that had turns, and another session is left
C4_Witness ==
    /\ clears > 0
    /\ \E id \in DOMAIN calls : calls[id].sid \notin DOMAIN store
    /\ DOMAIN store # {}

\* C6: without an API key a chat request stores no user and no assistant
\* turn and never calls the LLM; all it can store is its system instruction,
\* as a system turn; it returns the fixed configuration error with a single
\* segment of type "error".
C6_NoKeyBranch ==
    ~apiKey =>
        /\ llmCalls = 0
        /\ \A id \in DOMAIN calls :
              /\ calls[id].role = "system"
              /\ calls[id].text = req[id[1]].system
              /\ calls[id].text # <<>>
              /\ heap[id].role = "system"
        /\ \A w \in Workers :
              /\ req[w].pc \in {"idle", "system_ts", "system_add", "done"}
              /\ req[w].pc = "done" =>
                    /\ req[w].resp.response =
                          <<"Server is missing GEMINI_API_KEY. Please set it in .env.">>
                    /\ Len(req[w].resp.segments) = 1
                    /\ req[w].resp.segments[1].type = "error"
                    /\ req[w].resp.segments[1].text = req[w].resp.response
                    /\ req[w].resp.session_id = req[w].session_id
                    /\ (req[w].system # <<>>) = (<<w, 1>> \in DOMAIN calls)

\* without a key, one request with and one without a system instruction
\* have returned
C6_Witness ==
    /\ ~apiKey
    /\ \A w \in Workers : req[w].pc = "done"
    /\ \E w \in Workers : req[w].system # <<>> /\ <<w, 1>> \in Ids(StoredIds(req[w].session_id))
    /\ \E w \in Workers : req[w].system = <<>>

\* C7: when generate_content raises, the handler appends the error message
\* as an assistant turn to the request's session, after the request's user
\* turn, and returns a well-formed response whose text is that message.
C7_ErrorBranch ==
    \A w \in Workers :
        (req[w].pc \in {"error_ts", "error_add"} \/ req[w].branch = "except") =>
            \E e \in GeminiErrors :
                LET err_text == <<"Error communicating with Gemini API:", " ">> \o e
                    sid == req[w].session_id
                IN  /\ req[w].text = err_text
                    /\ <<w, 2>> \in DOMAIN heap
                    /\ heap[<<w, 2>>].role = "user"
                    /\ calls[<<w, 2>>].sid = sid
                    /\ req[w].branch = "except" =>
                          /\ req[w].pc = "done"
                          /\ req[w].resp.response = err_text
                          /\ req[w].resp.session_id = sid
                          /\ req[w].resp.html # <<>>
                          /\ req[w].resp.segments # <<>>
                          /\ \A i \in 1..Len(req[w].resp.segments) :
                                req[w].resp.segments[i].type = "paragraph"
                          /\ <<w, 3>> \in DOMAIN heap
                          /\ heap[<<w, 3>>].role = "assistant"
                          /\ heap[<<w, 3>>].text = err_text
                          /\ calls[<<w, 3>>].sid = sid
                          /\ clears = 0 => <<w, 3>> \in Ids(StoredIds(sid))
                          /\ \A i, j \in 1..Len(StoredIds(sid)) :
                                (StoredIds(sid)[i] = <<w, 3>> /\ StoredIds(sid)[j] = <<w, 2>>)
                                    => j < i

\* a request whose call raised has returned, and its turns are in the store
C7_Witness ==
    \E w \in Workers :
        /\ req[w].branch = "except"
        /\ req[w].pc = "done"
        /\ {<<w, 2>>, <<w, 3>>} \subseteq Ids(StoredIds(req[w].session_id))

\* the blocks of the prompt, from the stored turns of the session
ExpectedSystemBlock(turns) ==
    LET sys == SelectSeq(turns, IsSystem)
    IN  IF sys = <<>> THEN <<>>
        ELSE << <<"System instructions:">> >>
                 \o [i \in 1..Len(sys) |-> Trimmed(sys[i].text)]
                 \o << <<>> >>

ExpectedHistoryBody(turns, k) ==
    LET conv == SelectSeq(LastTurns(turns, k), IsConversation)
    IN  [i \in 1..Len(conv) |->
            <<RoleName(conv[i]), ":", " ">> \o Trimmed(conv[i].text)]

HistoryBlockAlways(turns, k) ==
    << <<"Conversation history (oldest -> newest):">> >>
        \o ExpectedHistoryBody(turns, k) \o << <<>> >>

HistoryBlockIfAny(turns, k) ==
    IF turns = <<>> THEN <<>> ELSE HistoryBlockAlways(turns, k)

ExpectedTail(message) ==
    << <<"User", ":", " ">> \o Trimmed(message), <<"Assistant", ":">> >>

\* what the two reads of build_prompt_with_context produce, given the
\* history block expected of the second
PromptStep(HistoryBlock(_, _)) ==
    \A w \in Workers :
        LET turns == StoredTurns(req[w].session_id)
        IN  /\ BuildPromptSystem(w) =>
                  /\ req'[w].parts = ExpectedSystemBlock(turns)
                  /\ store' = store /\ heap' = heap
            /\ BuildPromptHistory(w) =>
                  /\ req'[w].prompt =
                        Flat(req[w].parts
                             \o HistoryBlock(turns, req[w].memory_size)
                             \o ExpectedTail(req[w].message))
                  /\ Len(ExpectedHistoryBody(turns, req[w].memory_size))
                        <= req[w].memory_size
                  /\ store' = store /\ heap' = heap

\* C8 as stated: for every store state the prompt is the system block (if
\* the session has a system turn), the history block (header, the user and
\* assistant turns among the last memory_size stored turns, blank line),
\* "User: <trimmed message>" and "Assistant:"; the store is not modified.
C8_PromptAsStated == [][PromptStep(HistoryBlockAlways)]_vars

\* C8 amended: as stated, but the history block (header and blank line
\* included) is emitted only when the session has at least one stored turn.
C8_PromptAmended == [][PromptStep(HistoryBlockIfAny)]_vars

\* a prompt with a system block whose history header has an empty body
C8_Witness ==
    \E w \in Workers :
        /\ req[w].pc = "generate"
        /\ IsPrefix(<<"System instructions:", "\n">>, req[w].prompt)
        /\ Contains(req[w].prompt,
                    <<"Conversation history (oldest -> newest):", "\n", "\n",
                      "User", ":">>)

\* C10: the user turn is appended before the prompt is built: when it is
\* still the newest turn of the session at the history read, the history
\* block ends with the request's own message, which the prompt then repeats
\* as its "User:" line; the assistant turn is appended only after the
\* external call.
C10_Step ==
    \A w \in Workers :
        LET ids == StoredIds(req[w].session_id)
            line == <<"User", ":", " ">> \o Trimmed(req[w].message)
        IN  /\ (BuildPromptHistory(w) /\ ids # <<>> /\ ids[Len(ids)] = <<w, 2>>) =>
                  IsSuffix(Flat(<<line, <<>>, line, <<"Assistant", ":">> >>),
                           req'[w].prompt)
            /\ req'[w].pc \in {"get_all", "get_recent", "generate"} =>
                  /\ <<w, 2>> \in DOMAIN heap'
                  /\ <<w, 3>> \notin DOMAIN heap'
            /\ (<<w, 3>> \in DOMAIN heap' /\ <<w, 3>> \notin DOMAIN heap) =>
                  /\ req[w].pc \in {"assistant_add", "error_add"}
                  /\ req[w].prompt # <<>>
                  /\ llmCalls > 0

C10_OwnMessageTwice == [][C10_Step]_vars

\* a prompt built while the request's user turn was the newest of a session
\* that another request had written to
C10_Witness ==
    \E w \in Workers :
        LET ids == StoredIds(req[w].session_id)
            line == <<"User", ":", " ">> \o Trimmed(req[w].message)
        IN  /\ req[w].pc = "generate"
            /\ ids # <<>> /\ ids[Len(ids)] = <<w, 2>>
            /\ \E i \in 1..Len(ids) : ids[i][1] # w
            /\ IsSuffix(Flat(<<line, <<>>, line, <<"Assistant", ":">> >>),
                        req[w].prompt)

\* C2 as stated: get_recent(sid, k) returns the last min(k, len) turns in
\* their order when k > 0, and the full history when k <= 0 or len <= k.
C2_Step ==
    \A sid \in ApiSessions, k \in Limits :
        ApiGetRecent(sid, k) =>
            held' = IF k > 0 THEN LastTurns(StoredIds(sid), k)
                    ELSE StoredIds(sid)

C2_RecentAsStated == [][C2_Step]_vars

\* what the store holds, by value
StoreView == [sid \in DOMAIN store |-> StoredTurns(sid)]
HeldView == [i \in 1..Len(held) |-> heap[held[i]]]

\* C5 as stated: a returned list is a snapshot: no later add_message or
\* clear changes the list or its turns, and nothing the caller does to the
\* list or to a turn in it changes what the store holds.
C5_Step ==
    /\ (\E sid \in ApiSessions : ApiClear(sid)
            \/ \E role \in ApiRoles, text \in ApiTexts :
                   ApiAddMessage(sid, role, text))
          => held' = held /\ HeldView' = HeldView
    /\ (CallerPops \/ \E i \in 1..MaxTurns : CallerEditsTurn(i))
          => store' = store /\ StoreView' = StoreView

C5_SnapshotAsStated == [][C5_Step]_vars

\* the character an entity stands for
Entities ==
    { [ent |-> <<"&", "a", "m", "p", ";">>, ch |-> "&"],
      [ent |-> <<"&", "l", "t", ";">>, ch |-> "<"],
      [ent |-> <<"&", "g", "t", ";">>, ch |-> ">"],
      [ent |-> <<"&", "q", "u", "o", "t", ";">>, ch |-> "\""],
      [ent |-> <<"&", "#", "x", "2", "7", ";">>, ch |-> "'"] }

\* reads the inside of a <p> element up to its </p>: the text it shows, and
\* what follows the </p>; fails on any other '<', '>' or '&' and on a newline
RECURSIVE DecodeBody(_)
DecodeBody(s) ==
    IF s = <<>> THEN [ok |-> FALSE, text |-> <<>>, rest |-> <<>>]
    ELSE IF StartsWith(s, <<"<", "/", "p", ">">>)
         THEN [ok |-> TRUE, text |-> <<>>, rest |-> SubSeq(s, 5, Len(s))]
    ELSE IF StartsWith(s, <<"<", "b", "r", ">">>)
         THEN LET d == DecodeBody(SubSeq(s, 5, Len(s)))
              IN  [d EXCEPT !.text = <<"\n">> \o @]
    ELSE IF \E e \in Entities : StartsWith(s, e.ent)
         THEN LET e == CHOOSE x \in Entities : StartsWith(s, x.ent)
                  d == DecodeBody(SubSeq(s, Len(e.ent) + 1, Len(s)))
              IN  [d EXCEPT !.text = <<e.ch>> \o @]
    ELSE IF Head(s) \in {"<", ">", "&", "\n"}
         THEN [ok |-> FALSE, text |-> <<>>, rest |-> <<>>]
    ELSE LET d == DecodeBody(Tail(s))
         IN  [d EXCEPT !.text = <<Head(s)>> \o @]

\* reads <p>..</p> elements separated by newlines: the texts they show
RECURSIVE DecodeHtml(_)
DecodeHtml(s) ==
    IF ~StartsWith(s, <<"<", "p", ">">>) THEN [ok |-> FALSE, texts |-> <<>>]
    ELSE LET b == DecodeBody(SubSeq(s, 4, Len(s)))
         IN  IF ~b.ok THEN [ok |-> FALSE, texts |-> <<>>]
             ELSE IF b.rest = <<>> THEN [ok |-> TRUE, texts |-> <<b.text>>]
             ELSE IF Head(b.rest) # "\n" THEN [ok |-> FALSE, texts |-> <<>>]
             ELSE LET d == DecodeHtml(Tail(b.rest))
                  IN  [d EXCEPT !.texts = <<b.text>> \o @]

\* the characters of s that are not whitespace, in order
Visible(s) == SelectSeq(s, LAMBDA c : c \notin {" ", "\n", "\r", "\t"})

RECURSIVE Concat(_)
Concat(seqs) == IF seqs = <<>> THEN <<>> ELSE Head(seqs) \o Concat(Tail(seqs))

\* C9: the html holds no markup from the input: it is <p> elements, one per
\* segment and in the segments' order, separated by newlines; inside them
\* the only tags are <br> and every '&', '<', '>' of the input stands as an
\* entity, so that the i-th element shows exactly the i-th segment's text;
\* the segments are the input's visible characters in source order.  (With
\* no segment the html is the placeholder <p>(empty)</p>.)
C9_HtmlEscaped ==
    lastCall.op = "build_visual_payload" =>
        LET d == DecodeHtml(visual.html)
            texts == [i \in 1..Len(visual.segments) |-> visual.segments[i].text]
        IN  /\ d.ok
            /\ \A i \in 1..Len(visual.segments) :
                  visual.segments[i].type = "paragraph"
            /\ visual.segments # <<>> => d.texts = texts
            /\ visual.segments = <<>> =>
                  visual.html = <<"<", "p", ">", "(empty)", "<", "/", "p", ">">>
            /\ Visible(Concat(texts)) = Visible(text_in)

\* an input with '<' and an inner line break has been formatted
C9_Witness ==
    /\ lastCall.op = "build_visual_payload"
    /\ Contains(text_in, <<"<">>)
    /\ Contains(visual.html, <<"&", "l", "t", ";">>)
    /\ Contains(visual.html, <<"<", "b", "r", ">">>)

=============================================================================
